---- MODULE Spec2Model ----
(***************************************************************************)
(* The continuous Wi-Fi scan coordinator of MPI_HW1_ExampleCode            *)
(* (WiFiScanner.py) and its reader in main.py, as a state machine.         *)
(*                                                                         *)
(* asyncio runs every coroutine on one thread: the code between two awaits *)
(* of a coroutine is one atomic step.  The callers of the scanner and the  *)
(* scan-loop task are such coroutines; the scan itself (_scan_wifi_sync)   *)
(* runs in a thread of the default executor.                               *)
(*                                                                         *)
(* Spec and FairSpec drive the scanner from one control flow, ConcSpec     *)
(* from two coroutines.  ParserSpec applies _parse_scan_results to one     *)
(* scan text, CsvSpec is the CSV file of the manual loggers of From GPT.   *)
(* DataSpec is the file appendData of main.py keeps, MainSpec the main()   *)
(* coroutine of main.py with the scan-loop task it starts and stops.       *)
(***************************************************************************)
EXTENDS Integers, Sequences, FiniteSets, TLC

VARIABLES
  running,      \* WiFiScanner._running
  scan_task,    \* WiFiScanner._scan_task: None or the handle of a loop task
  wifi_data,    \* WiFiScanner.wifi_data: an insertion-ordered dict, as a sequence of NetworkInfo
  tpc,          \* per loop task: where its coroutine stands
  tcancel,      \* per loop task: cancel() was called and CancelledError is not yet delivered
  tend,         \* per loop task: the await it stood at when CancelledError was delivered
  job,          \* per loop task: its _scan_wifi_sync call in the executor
  cpc,          \* per caller: where the calling coroutine stands
  cwait,        \* per caller: the task a stop call awaits
  cjob,         \* per caller: the executor call of its one-shot scan_wifi_once
  lastOp,       \* the scanner operation that completed last, and how
  ret,          \* what that operation returned
  lastMerged,   \* history: the records of the merged scan results, the latest per identifier
  parse_text,     \* _parse_scan_results: its argument scan_output, split into chunks
  parse_done,     \* _parse_scan_results has run on parse_text
  parse_networks, \* _parse_scan_results: the dict it returned
  parse_warnings, \* _parse_scan_results: the warnings it logged
  parse_exc,      \* _parse_scan_results: the exception it raised
  csv_file,       \* wifi.py, ble.py: the content of the output file
  csv_last,       \* wifi.py, ble.py: what the last measurement did to the file
  data_file,      \* main.py: the content of a file of BASE_FOLDER
  data_ret,       \* main.py: what the last appendData call returned
  mpc,            \* main.py: where main() stands
  mexit,          \* main.py: how main() left its collection loop
  collection_count  \* main.py: collection_count of main()

scannerVars == <<running, scan_task, wifi_data, tpc, tcancel, tend, job,
                 cpc, cwait, cjob, lastOp, ret, lastMerged>>

parserVars == <<parse_text, parse_done, parse_networks, parse_warnings, parse_exc>>

csvVars == <<csv_file, csv_last>>

dataVars == <<data_file, data_ret>>

mainVars == <<mpc, mexit, collection_count>>

vars == <<scannerVars, parserVars, csvVars, dataVars, mainVars>>

----------------------------------------------------------------------------
(* Bounds of the model *)

\* loop tasks the run may create (start calls that find the scanner idle)
MaxTasks == 2

\* largest count handed to get_strongest_networks
MaxCount == 3

\* how many chunks a scan text given to the parser has at most
MaxCells == 2

\* how many measurements the manual loggers store at most
MaxRows == 3

\* how many rows appendData stores at most
MaxAppends == 3

\* how many readings main() collects at most
MaxReadings == 2

Tasks == 1..MaxTasks

None == 0

Callers == {"main", "other"}

----------------------------------------------------------------------------
(* Text of the scan tool's output.  A chunk is what re.split leaves between *)
(* two "Cell N - " markers; of a chunk the model keeps the characters that  *)
(* follow each label the parser searches for (NoLabel: the label is absent) *)

NoLabel == <<"absent">>

HexChars == {"0","1","2","3","4","5","6","7","8","9",
             "A","B","C","D","E","F","a","b","c","d","e","f"}

DigitChars == <<"0","1","2","3","4","5","6","7","8","9">>

IsDigit(c) == \E i \in 1..10 : DigitChars[i] = c

DigitVal(c) == (CHOOSE i \in 1..10 : DigitChars[i] = c) - 1

\* [0-9A-Fa-f:]
AddrClass(c) == c \in HexChars \cup {":"}

AddrLen == 17

\* re.search(r'Address: ([0-9A-Fa-f:]{17})'): the 17 characters after the label
BssidMatches(text) ==
  /\ text # NoLabel
  /\ Len(text) >= AddrLen
  /\ \A i \in 1..AddrLen : AddrClass(text[i])

BssidGroup(text) == SubSeq(text, 1, AddrLen)

\* \d+ : the number of leading digits of s
RECURSIVE LeadingDigits(_)
LeadingDigits(s) ==
  IF s = <<>> \/ ~IsDigit(Head(s)) THEN 0 ELSE 1 + LeadingDigits(Tail(s))

\* int() of a string of digits
RECURSIVE DigitsToInt(_)
DigitsToInt(s) ==
  IF s = <<>> THEN 0
  ELSE DigitsToInt(SubSeq(s, 1, Len(s) - 1)) * 10 + DigitVal(s[Len(s)])

\* re.search(r'Signal level=(-?\d+)'): an optional minus sign, then digits
SignalMatches(text) ==
  /\ text # NoLabel
  /\ text # <<>>
  /\ IF Head(text) = "-" THEN LeadingDigits(Tail(text)) > 0
     ELSE LeadingDigits(text) > 0

\* group(1) of that match: the characters the pattern took
SignalGroup(text) ==
  IF Head(text) = "-"
  THEN SubSeq(text, 1, 1 + LeadingDigits(Tail(text)))
  ELSE SubSeq(text, 1, LeadingDigits(text))

\* int(s) raises ValueError unless s is an optional sign followed by digits
IntParses(s) ==
  LET d == IF s # <<>> /\ Head(s) \in {"-", "+"} THEN Tail(s) ELSE s
  IN  d # <<>> /\ LeadingDigits(d) = Len(d)

\* int() that drops the sign
IntOf_Unsigned(s) ==
  IF Head(s) \in {"-", "+"} THEN DigitsToInt(Tail(s)) ELSE DigitsToInt(s)

\* int(s) of a string it accepts
IntOf(s) ==
  IF Head(s) = "-" THEN -DigitsToInt(Tail(s))
  ELSE IF Head(s) = "+" THEN DigitsToInt(Tail(s))
  ELSE DigitsToInt(s)

DefaultSignal == -100

\* pat occurs somewhere in line
Contains(line, pat) ==
  \E i \in 1..(Len(line) - Len(pat) + 1) : SubSeq(line, i, i + Len(pat) - 1) = pat

\* re.search(r'IE:.*WPA2') and re.search(r'IE:.*WPA'): "." stays within a
\* line, so some IE line has the word after its label; chunk.ie holds, for
\* each IE line of the chunk, the characters after "IE:"
IeSearch(chunk, word) == \E i \in 1..Len(chunk.ie) : Contains(chunk.ie[i], word)

Wpa2Word == <<"W","P","A","2">>

WpaWord == <<"W","P","A">>

\* the two searches in the other order
Encryption_WpaFirst(chunk) ==
  IF chunk.enc_on
  THEN IF IeSearch(chunk, WpaWord) THEN "WPA"
       ELSE IF IeSearch(chunk, Wpa2Word) THEN "WPA2"
       ELSE "WEP"
  ELSE "Open"

\* lines 130-138: the encryption markers of a chunk
Encryption(chunk) ==
  IF chunk.enc_on
  THEN IF IeSearch(chunk, Wpa2Word) THEN "WPA2"
       ELSE IF IeSearch(chunk, WpaWord) THEN "WPA"
       ELSE "WEP"
  ELSE "Open"

\* NetworkInfo (essid, frequency and last_seen are left out: nothing reads them)
NetworkInfo(b, s, e) == [bssid |-> b, signal_strength |-> s, encryption |-> e]

\* _parse_cell raising on a chunk without an address instead of returning None
ParseCellRaises_NoAddress(chunk) == ~BssidMatches(chunk.addr)

\* _parse_cell raises: the only call of it that can is int(), line 124
ParseCellRaises(chunk) ==
  /\ BssidMatches(chunk.addr)
  /\ SignalMatches(chunk.sig)
  /\ ~IntParses(SignalGroup(chunk.sig))

\* _parse_cell when it does not raise: None is modelled as <<>>, a record as
\* <<record>>
ParseCell(chunk) ==
  IF ~BssidMatches(chunk.addr) THEN <<>>
  ELSE <<NetworkInfo(BssidGroup(chunk.addr),
                     IF SignalMatches(chunk.sig) THEN IntOf(SignalGroup(chunk.sig))
                     ELSE DefaultSignal,
                     Encryption(chunk))>>

----------------------------------------------------------------------------
(* Python dicts keep insertion order: a dict is a sequence of records with  *)
(* distinct bssid                                                           *)

Keys(d) == {d[i].bssid : i \in 1..Len(d)}

IndexOf(d, k) == CHOOSE i \in 1..Len(d) : d[i].bssid = k

\* d[k] = v that leaves the value of an existing key alone
DictSet_KeepFirst(d, item) ==
  IF item.bssid \in Keys(d) THEN d ELSE Append(d, item)

\* d[k] = v: an existing key keeps its place, a new one goes last
DictSet(d, item) ==
  IF item.bssid \in Keys(d)
  THEN [d EXCEPT ![IndexOf(d, item.bssid)] = item]
  ELSE Append(d, item)

\* update that adds the entries without looking for their keys
DictUpdate_Append(d, other) == d \o other

\* dict.update(other)
RECURSIVE DictUpdate(_, _)
DictUpdate(d, other) ==
  IF other = <<>> THEN d
  ELSE DictUpdate(DictSet(d, Head(other)), Tail(other))

\* except Exception, line 100: what _parse_cell raises is a ValueError
CellCatches(exc) == exc \in {"ValueError"}

\* the loop over the cells, lines 95-102: a cell whose parse raises is skipped
RECURSIVE ParseCells(_, _)
ParseCells(networks, cells) ==
  IF cells = <<>> THEN networks
  ELSE IF ParseCellRaises(Head(cells)) THEN ParseCells(networks, Tail(cells))
  ELSE LET info == ParseCell(Head(cells))
       IN ParseCells(IF info # <<>> /\ info[1].bssid # <<>>
                     THEN DictSet(networks, info[1]) ELSE networks,
                     Tail(cells))

\* logger.warning, line 101: once for each cell whose parse raises
RECURSIVE ParseWarnings(_)
ParseWarnings(cells) ==
  IF cells = <<>> THEN 0
  ELSE (IF ParseCellRaises(Head(cells)) /\ CellCatches("ValueError") THEN 1 ELSE 0)
       + ParseWarnings(Tail(cells))

\* re.split(r'Cell \d+ - ', scan_output)[1:]: chunks is what re.split returns
Cells(chunks) == Tail(chunks)

\* _parse_scan_results: the dict it returns
ParseScanResults(chunks) == ParseCells(<<>>, Cells(chunks))

\* _parse_scan_results: the exception that leaves it
ParseScanRaises(chunks) ==
  IF \E i \in 1..Len(Cells(chunks)) :
       ParseCellRaises(Cells(chunks)[i]) /\ ~CellCatches("ValueError")
  THEN "ValueError" ELSE "none"

----------------------------------------------------------------------------
(* What the scan tool may print, and how its run may end *)

Mac1 == <<"A","A",":","B","B",":","C","C",":","D","D",":","E","E",":","0","1">>

Mac2 == <<"A","A",":","B","B",":","C","C",":","D","D",":","E","E",":","0","2">>

\* an address field that is one character short
ShortAddr == <<"A","A",":","B","B",":","C","C",":","D","D",":","E","E",":","0">>

Chunk(a, s, e, i) == [addr |-> a, sig |-> s, enc_on |-> e, ie |-> i]

\* IE lines of iwlist: "IE: IEEE 802.11i/WPA2 Version 1", "IE: WPA Version 1"
\* and a vendor element
IeWpa2 == <<" ","I","E","E","E"," ","8","0","2",".","1","1","i","/","W","P","A","2",
            " ","V","e","r","s","i","o","n"," ","1">>

IeWpa == <<" ","W","P","A"," ","V","e","r","s","i","o","n"," ","1">>

IeOther == <<" ","U","n","k","n","o","w","n",":"," ","2","D","1","A">>

Banner == Chunk(NoLabel, NoLabel, FALSE, <<>>)

Out1 == <<Banner, Chunk(Mac1, <<"-","4","0"," ","d","B","m">>, FALSE, <<>>)>>

Out2 == <<Banner, Chunk(Mac2, <<"-","1","0","1"," ","d","B","m">>, TRUE, <<IeWpa2>>),
                  Chunk(Mac1, <<"-","7","0"," ","d","B","m">>, FALSE, <<>>)>>

Out3 == <<Banner, Chunk(Mac2, <<"-","7","0"," ","d","B","m">>, TRUE, <<IeOther>>)>>

\* no chunk with a parsable address
Out4 == <<Banner, Chunk(ShortAddr, <<"-","2","0">>, TRUE, <<IeWpa>>)>>

\* the tool found no network
Out5 == <<Banner>>

ScanOutputs == {Out1, Out2, Out3, Out4, Out5}

\* subprocess.check_output fails with one of these
ToolFailures == {"CalledProcessError", "TimeoutExpired", "FileNotFoundError"}

ToolOutcomes ==
  [kind : {"ok"}, output : ScanOutputs] \cup [kind : ToolFailures, output : {<<>>}]

\* _scan_wifi_sync without its last except clause
CaughtBySync_NoGeneric(kind) == kind \in {"CalledProcessError", "TimeoutExpired"}

\* the except clauses of _scan_wifi_sync, lines 70-78; every failure of the
\* tool is an Exception
CaughtBySync(kind) ==
  \/ kind = "CalledProcessError"
  \/ kind = "TimeoutExpired"
  \/ kind \in ToolFailures

\* _scan_wifi_sync on one run of the tool: what it returns, or what it raises
ScanWifiSync(tool) ==
  IF tool.kind = "ok"
  THEN [res |-> ParseScanResults(tool.output), exc |-> "none"]
  ELSE IF CaughtBySync(tool.kind) THEN [res |-> <<>>, exc |-> "none"]
  ELSE [res |-> <<>>, exc |-> tool.kind]

\* an executor call: none, running in its thread, or done with its outcome
NoJob == [st |-> "none", tool |-> "none", res |-> <<>>, exc |-> "none"]

RunningJob == [st |-> "running", tool |-> "none", res |-> <<>>, exc |-> "none"]

DoneJob(tool) ==
  [st |-> "done", tool |-> tool.kind,
   res |-> ScanWifiSync(tool).res, exc |-> ScanWifiSync(tool).exc]

\* a call that ended after its future was cancelled: nothing gets its outcome
DroppedJob == [st |-> "dropped", tool |-> "none", res |-> <<>>, exc |-> "none"]

----------------------------------------------------------------------------
(* The scanner and its loop task *)

Terminated(t) == tpc[t] \in {"done", "cancelled"}

Live(t) == tpc[t] \notin {"none", "done", "cancelled"}

\* the handle asyncio.create_task returns: the next unused task
NewTask == Cardinality({t \in Tasks : tpc[t] # "none"}) + 1

Op(o, c, a, e) == [op |-> o, by |-> c, arg |-> a, exc |-> e]

ScannerInit(present) ==
  /\ running = FALSE
  /\ scan_task = None
  /\ wifi_data = <<>>
  /\ tpc = [t \in Tasks |-> "none"]
  /\ tcancel = [t \in Tasks |-> FALSE]
  /\ tend = [t \in Tasks |-> "none"]
  /\ job = [t \in Tasks |-> NoJob]
  /\ cpc = [c \in Callers |-> IF c \in present THEN "idle" ELSE "absent"]
  /\ cwait = [c \in Callers |-> None]
  /\ cjob = [c \in Callers |-> NoJob]
  /\ lastOp = Op("init", "main", 0, "none")
  /\ ret = <<>>
  /\ lastMerged = {}

\* no parse has been asked for
ParserIdle ==
  /\ parse_text = <<>>
  /\ parse_done = FALSE
  /\ parse_networks = <<>>
  /\ parse_warnings = 0
  /\ parse_exc = "none"

\* a file is there or not (os.path.isfile), and has lines of characters
MissingFile == [exists |-> FALSE, lines |-> <<>>]

EmptyFile == [exists |-> TRUE, lines |-> <<>>]

\* no measurement has been taken: the output file does not exist
CsvIdle ==
  /\ csv_file = MissingFile
  /\ csv_last = "none"

\* nothing was stored by main.py: the file does not exist
DataIdle ==
  /\ data_file = MissingFile
  /\ data_ret = "none"

\* main() is not running
MainIdle ==
  /\ mpc = "none"
  /\ mexit = "none"
  /\ collection_count = 0

Init == ScannerInit({"main"}) /\ ParserIdle /\ CsvIdle /\ DataIdle /\ MainIdle

\* start without its guard
StartIsNoop_Never == FALSE

\* line 154
StartIsNoop == running

\* start_continuous_scan, lines 152-160: it never awaits, so it is one step
StartCall(c) ==
  /\ cpc[c] = "idle"
  /\ IF StartIsNoop
     THEN UNCHANGED <<running, scan_task, tpc>>
     ELSE /\ NewTask \in Tasks
          /\ running' = TRUE
          /\ scan_task' = NewTask
          /\ tpc' = [tpc EXCEPT ![NewTask] = "created"]
  /\ lastOp' = Op("start", c, 0, IF StartIsNoop THEN "noop" ELSE "none")
  /\ ret' = <<>>
  /\ UNCHANGED <<wifi_data, tcancel, tend, job, cpc, cwait, cjob, lastMerged>>
  /\ UNCHANGED <<parserVars, csvVars, dataVars>>

\* start_continuous_scan called by a coroutine other than main()
start_continuous_scan(c) == StartCall(c) /\ UNCHANGED mainVars

\* stop that only looks at the task handle
StopIsNoop_OnlyTask == scan_task = None

\* line 164
StopIsNoop == ~running \/ scan_task = None

\* cancel() without effect
CancelRequested_Ignored(t) == tcancel

\* Task.cancel(): no effect on a finished task; otherwise CancelledError is
\* thrown into the coroutine at its next step
CancelRequested(t) == [tcancel EXCEPT ![t] = ~Terminated(t)]

\* stop without its try/except
StopCatches_Nothing(exc) == FALSE

\* the except clause of line 172
StopCatches(exc) == exc = "CancelledError"

\* what `await task` raises in the awaiting coroutine once the task has ended
AwaitRaises(t) == IF tpc[t] = "cancelled" THEN "CancelledError" ELSE "none"

StopOutcome(t) ==
  IF AwaitRaises(t) # "none" /\ ~StopCatches(AwaitRaises(t)) THEN AwaitRaises(t) ELSE "none"

\* stop_continuous_scan up to its await, lines 162-171; awaiting a task that
\* has already ended does not suspend
StopCall(c) ==
  /\ cpc[c] = "idle"
  /\ IF StopIsNoop
     THEN /\ lastOp' = Op("stop", c, 0, "noop")
          /\ UNCHANGED <<running, tcancel, cpc, cwait>>
     ELSE /\ running' = FALSE
          /\ tcancel' = CancelRequested(scan_task)
          /\ cwait' = [cwait EXCEPT ![c] = scan_task]
          /\ IF Terminated(scan_task)
             THEN /\ lastOp' = Op("stop", c, scan_task, StopOutcome(scan_task))
                  /\ UNCHANGED cpc
             ELSE /\ lastOp' = Op("stop_called", c, scan_task, "none")
                  /\ cpc' = [cpc EXCEPT ![c] = "stop_await"]
  /\ ret' = <<>>
  /\ UNCHANGED <<scan_task, wifi_data, tpc, tend, job, cjob, lastMerged>>
  /\ UNCHANGED <<parserVars, csvVars, dataVars>>

\* the same, called by a coroutine other than main()
stop_continuous_scan(c) == StopCall(c) /\ UNCHANGED mainVars

\* stop that does not await the task
StopMayResume_NoWait(c) == TRUE

\* `await self._scan_task` resumes only when the task has ended
StopMayResume(c) == Terminated(cwait[c])

\* stop_continuous_scan from its await on, lines 171-175
StopResume(c) ==
  /\ cpc[c] = "stop_await"
  /\ StopMayResume(c)
  /\ cpc' = [cpc EXCEPT ![c] = "idle"]
  /\ lastOp' = Op("stop", c, cwait[c], StopOutcome(cwait[c]))
  /\ ret' = <<>>
  /\ UNCHANGED <<running, scan_task, wifi_data, tpc, tcancel, tend, job,
                 cwait, cjob, lastMerged>>
  /\ UNCHANGED <<parserVars, csvVars, dataVars>>

\* the same, in a coroutine other than main()
StopReturn(c) == StopResume(c) /\ UNCHANGED mainVars

\* loop.run_in_executor hands the scan to a thread, or fails to (the executor
\* cannot start a thread): line 45
SubmitOutcomes == {"submitted", "RuntimeError"}

\* a loop that ends when the scan cannot be handed to the executor
LoopIterate_StopsOnError(t, s) ==
  IF ~running \/ s # "submitted"
  THEN /\ tpc' = [tpc EXCEPT ![t] = "done"]
       /\ UNCHANGED job
  ELSE /\ tpc' = [tpc EXCEPT ![t] = "scanning"]
       /\ job' = [job EXCEPT ![t] = RunningJob]

\* the top of `while self._running` and the code up to the next await:
\* lines 179-181, and 193-195 when scan_wifi_once raises
LoopIterate(t, s) ==
  IF ~running
  THEN /\ tpc' = [tpc EXCEPT ![t] = "done"]
       /\ UNCHANGED job
  ELSE IF s = "submitted"
  THEN /\ tpc' = [tpc EXCEPT ![t] = "scanning"]
       /\ job' = [job EXCEPT ![t] = RunningJob]
  ELSE /\ tpc' = [tpc EXCEPT ![t] = "backoff"]
       /\ UNCHANGED job

\* the first step of the task that create_task scheduled
LoopStart(t) ==
  /\ tpc[t] = "created"
  /\ ~tcancel[t]
  /\ \E s \in SubmitOutcomes : LoopIterate(t, s)
  /\ UNCHANGED <<running, scan_task, wifi_data, tcancel, tend, cpc, cwait, cjob,
                 lastOp, ret, lastMerged>>
  /\ UNCHANGED <<parserVars, csvVars, dataVars, mainVars>>

\* asyncio.sleep(self.scan_interval) of line 189 or line 195 has elapsed
SleepExpire(t) ==
  /\ tpc[t] \in {"sleeping", "backoff"}
  /\ ~tcancel[t]
  /\ \E s \in SubmitOutcomes : LoopIterate(t, s)
  /\ UNCHANGED <<running, scan_task, wifi_data, tcancel, tend, cpc, cwait, cjob,
                 lastOp, ret, lastMerged>>
  /\ UNCHANGED <<parserVars, csvVars, dataVars, mainVars>>

\* the cache assigned instead of updated
Merge_Replace(cache, scan_results) ==
  IF scan_results # <<>> THEN scan_results ELSE cache

\* lines 182-183: a nonempty result is merged into the cache
Merge(cache, scan_results) ==
  IF scan_results # <<>> THEN DictUpdate(cache, scan_results) ELSE cache

\* a scan thread that writes what it found into the cache itself
ScanThreadRun_Merging(t) ==
  /\ job[t].st = "running"
  /\ \E tool \in ToolOutcomes :
       /\ job' = [job EXCEPT ![t] = IF tpc[t] = "scanning" THEN DoneJob(tool)
                                    ELSE DroppedJob]
       /\ wifi_data' = Merge(wifi_data, ScanWifiSync(tool).res)
  /\ UNCHANGED <<running, scan_task, tpc, tcancel, tend, cpc, cwait, cjob,
                 lastOp, ret, lastMerged>>
  /\ UNCHANGED <<parserVars, csvVars, dataVars, mainVars>>

\* the executor thread runs _scan_wifi_sync to its end; the future of a task
\* that no longer awaits it is cancelled, and the outcome is dropped
ScanThreadRun(t) ==
  /\ job[t].st = "running"
  /\ \E tool \in ToolOutcomes :
       job' = [job EXCEPT ![t] = IF tpc[t] = "scanning" THEN DoneJob(tool)
                                 ELSE DroppedJob]
  /\ UNCHANGED <<running, scan_task, wifi_data, tpc, tcancel, tend, cpc, cwait, cjob,
                 lastOp, ret, lastMerged>>
  /\ UNCHANGED <<parserVars, csvVars, dataVars, mainVars>>

\* the history of merged results: a later record replaces the earlier one of
\* the same identifier
Remember(seen, scan_results) ==
  {r \in seen : r.bssid \notin Keys(scan_results)}
    \cup {scan_results[i] : i \in 1..Len(scan_results)}

\* the loop resumes from `await self.scan_wifi_once()`: lines 181-189, or
\* 193-195 when the scan raised
ScanResume(t) ==
  /\ tpc[t] = "scanning"
  /\ job[t].st = "done"
  /\ ~tcancel[t]
  /\ IF job[t].exc # "none"
     THEN /\ tpc' = [tpc EXCEPT ![t] = "backoff"]
          /\ UNCHANGED <<wifi_data, lastMerged>>
     ELSE /\ tpc' = [tpc EXCEPT ![t] = "sleeping"]
          /\ wifi_data' = Merge(wifi_data, job[t].res)
          /\ lastMerged' = Remember(lastMerged, job[t].res)
  /\ job' = [job EXCEPT ![t] = NoJob]
  /\ UNCHANGED <<running, scan_task, tcancel, tend, cpc, cwait, cjob, lastOp, ret>>
  /\ UNCHANGED <<parserVars, csvVars, dataVars, mainVars>>

\* where CancelledError, thrown at the await the task stands at, leaves the
\* task: before its first step and in the sleep of line 195 nothing catches
\* it; at lines 181 and 189 the except clause of line 191 breaks the loop
AfterCancel(pc) == IF pc \in {"scanning", "sleeping"} THEN "done" ELSE "cancelled"

\* cancellation that kills the scan
JobAfterCancel_Kills(j) == NoJob

\* cancelling the future of run_in_executor does not stop a thread that runs
JobAfterCancel(j) == IF j.st = "running" THEN j ELSE NoJob

\* the task's next step after cancel(): CancelledError is delivered
CancelDeliver(t) ==
  /\ Live(t)
  /\ tcancel[t]
  /\ tpc' = [tpc EXCEPT ![t] = AfterCancel(tpc[t])]
  /\ tend' = [tend EXCEPT ![t] = tpc[t]]
  /\ tcancel' = [tcancel EXCEPT ![t] = FALSE]
  /\ job' = [job EXCEPT ![t] = JobAfterCancel(job[t])]
  /\ UNCHANGED <<running, scan_task, wifi_data, cpc, cwait, cjob, lastOp, ret,
                 lastMerged>>
  /\ UNCHANGED <<parserVars, csvVars, dataVars, mainVars>>

----------------------------------------------------------------------------
(* Queries and the one-shot scan *)

DefaultMinSignal == -100

MinSignals == {DefaultMinSignal, -70, -40}

Counts == 0..MaxCount

\* the dict comprehension of lines 207-210
GetNetworks(cache, min_signal) ==
  SelectSeq(cache, LAMBDA info : info.signal_strength >= min_signal)

get_networks(c, m) ==
  /\ cpc[c] = "idle"
  /\ ret' = GetNetworks(wifi_data, m)
  /\ lastOp' = Op("get_networks", c, m, "none")
  /\ UNCHANGED <<running, scan_task, wifi_data, tpc, tcancel, tend, job,
                 cpc, cwait, cjob, lastMerged>>
  /\ UNCHANGED <<parserVars, csvVars, dataVars, mainVars>>

\* a sort that puts x before the items as strong as x
RECURSIVE InsertDesc_Unstable(_, _)
InsertDesc_Unstable(s, x) ==
  IF s = <<>> THEN <<x>>
  ELSE IF Head(s).signal_strength > x.signal_strength
  THEN <<Head(s)>> \o InsertDesc_Unstable(Tail(s), x)
  ELSE <<x>> \o s

\* sorted(..., reverse=True) is stable: x goes after the items at least as strong
RECURSIVE InsertDesc(_, _)
InsertDesc(s, x) ==
  IF s = <<>> THEN <<x>>
  ELSE IF Head(s).signal_strength >= x.signal_strength
  THEN <<Head(s)>> \o InsertDesc(Tail(s), x)
  ELSE <<x>> \o s

RECURSIVE SortedDesc(_)
SortedDesc(d) ==
  IF d = <<>> THEN <<>>
  ELSE InsertDesc(SortedDesc(SubSeq(d, 1, Len(d) - 1)), d[Len(d)])

\* s[:count] for count >= 0
SliceTo(s, count) == SubSeq(s, 1, IF count < Len(s) THEN count ELSE Len(s))

\* lines 222-227
GetStrongestNetworks(cache, count) == SliceTo(SortedDesc(cache), count)

get_strongest_networks(c, k) ==
  /\ cpc[c] = "idle"
  /\ ret' = GetStrongestNetworks(wifi_data, k)
  /\ lastOp' = Op("get_strongest_networks", c, k, "none")
  /\ UNCHANGED <<running, scan_task, wifi_data, tpc, tcancel, tend, job,
                 cpc, cwait, cjob, lastMerged>>
  /\ UNCHANGED <<parserVars, csvVars, dataVars, mainVars>>

\* scan_wifi_once called by a caller, up to its await (lines 44-45)
ScanOnceCall(c) ==
  /\ cpc[c] = "idle"
  /\ \E s \in SubmitOutcomes :
       IF s = "submitted"
       THEN /\ cpc' = [cpc EXCEPT ![c] = "scan_await"]
            /\ cjob' = [cjob EXCEPT ![c] = RunningJob]
            /\ lastOp' = Op("scan_wifi_once_called", c, 0, "none")
       ELSE /\ lastOp' = Op("scan_wifi_once", c, 0, s)
            /\ UNCHANGED <<cpc, cjob>>
  /\ ret' = <<>>
  /\ UNCHANGED <<running, scan_task, wifi_data, tpc, tcancel, tend, job,
                 cwait, lastMerged>>
  /\ UNCHANGED <<parserVars, csvVars, dataVars, mainVars>>

\* the executor thread of a one-shot scan
ScanOnceThreadRun(c) ==
  /\ cjob[c].st = "running"
  /\ \E tool \in ToolOutcomes : cjob' = [cjob EXCEPT ![c] = DoneJob(tool)]
  /\ UNCHANGED <<running, scan_task, wifi_data, tpc, tcancel, tend, job,
                 cpc, cwait, lastOp, ret, lastMerged>>
  /\ UNCHANGED <<parserVars, csvVars, dataVars, mainVars>>

\* a one-shot scan that merges its result into the cache
ScanOnceReturn_Merging(c) ==
  /\ cpc[c] = "scan_await"
  /\ cjob[c].st = "done"
  /\ cpc' = [cpc EXCEPT ![c] = "idle"]
  /\ cjob' = [cjob EXCEPT ![c] = NoJob]
  /\ ret' = cjob[c].res
  /\ wifi_data' = Merge(wifi_data, cjob[c].res)
  /\ lastOp' = Op("scan_wifi_once", c, 0, cjob[c].exc)
  /\ UNCHANGED <<running, scan_task, tpc, tcancel, tend, job,
                 cwait, lastMerged>>
  /\ UNCHANGED <<parserVars, csvVars, dataVars, mainVars>>

\* scan_wifi_once returns what _scan_wifi_sync returned
ScanOnceReturn(c) ==
  /\ cpc[c] = "scan_await"
  /\ cjob[c].st = "done"
  /\ cpc' = [cpc EXCEPT ![c] = "idle"]
  /\ cjob' = [cjob EXCEPT ![c] = NoJob]
  /\ ret' = cjob[c].res
  /\ lastOp' = Op("scan_wifi_once", c, 0, cjob[c].exc)
  /\ UNCHANGED <<running, scan_task, wifi_data, tpc, tcancel, tend, job,
                 cwait, lastMerged>>
  /\ UNCHANGED <<parserVars, csvVars, dataVars, mainVars>>

\* main.py: read_wifi builds a new dict of bssid -> signal_strength ...
ReadWifi(cache) ==
  LET networks == GetNetworks(cache, DefaultMinSignal)
  IN [i \in 1..Len(networks) |->
        [key |-> networks[i].bssid, value |-> networks[i].signal_strength]]

CoordX == 0

CoordY == 0

\* ... and add_metadata updates that dict with the keys timestamp, x and y
AddMetadata(data) ==
  data \o <<[key |-> <<"t","i","m","e","s","t","a","m","p">>, value |-> -1],
            [key |-> <<"x">>, value |-> CoordX],
            [key |-> <<"y">>, value |-> CoordY]>>

MetadataKeys == {<<"t","i","m","e","s","t","a","m","p">>, <<"x">>, <<"y">>}

\* collect_reading, lines 130-132
ReadWifiCall(c) ==
  /\ cpc[c] = "idle"
  /\ ret' = AddMetadata(ReadWifi(wifi_data))
  /\ lastOp' = Op("read_wifi", c, 0, "none")
  /\ UNCHANGED <<running, scan_task, wifi_data, tpc, tcancel, tend, job,
                 cpc, cwait, cjob, lastMerged>>
  /\ UNCHANGED <<parserVars, csvVars>>

\* read_wifi outside main()
read_wifi(c) == ReadWifiCall(c) /\ UNCHANGED <<dataVars, mainVars>>

----------------------------------------------------------------------------
CallerStep(c) ==
  \/ start_continuous_scan(c)
  \/ stop_continuous_scan(c)
  \/ StopReturn(c)
  \/ \E m \in MinSignals : get_networks(c, m)
  \/ \E k \in Counts : get_strongest_networks(c, k)
  \/ ScanOnceCall(c)
  \/ ScanOnceThreadRun(c)
  \/ ScanOnceReturn(c)
  \/ read_wifi(c)

TaskStep(t) ==
  \/ LoopStart(t)
  \/ SleepExpire(t)
  \/ ScanThreadRun(t)
  \/ ScanResume(t)
  \/ CancelDeliver(t)

Next ==
  \/ \E c \in Callers : CallerStep(c)
  \/ \E t \in Tasks : TaskStep(t)

\* the scanner driven by one control flow
Spec == Init /\ [][Next]_vars

\* the event loop runs every callback that is ready: a cancelled task gets its
\* step, and a caller whose awaited task has ended is resumed
FairSpec ==
  /\ Spec
  /\ \A t \in Tasks : WF_vars(CancelDeliver(t))
  /\ \A c \in Callers : WF_vars(StopReturn(c))

\* two coroutines of one event loop hold the scanner: while one is suspended in
\* stop's await the other may call start or stop
InitConc == ScannerInit(Callers) /\ ParserIdle /\ CsvIdle /\ DataIdle /\ MainIdle

ConcCallerStep(c) ==
  \/ start_continuous_scan(c)
  \/ stop_continuous_scan(c)
  \/ StopReturn(c)

ConcNext ==
  \/ \E c \in Callers : ConcCallerStep(c)
  \/ \E t \in Tasks : TaskStep(t)

\* start and stop called from two coroutines
ConcSpec == InitConc /\ [][ConcNext]_vars

----------------------------------------------------------------------------
(* The parser on its own: _parse_scan_results applied to one scan text *)

\* seventeen hexadecimal digits, no colon
LooseAddr == <<"A","A","B","B","C","C","D","D","E","E","F","F","0","0","1","1","2">>

Sig40 == <<"-","4","0"," ","d","B","m">>

Sig70 == <<"-","7","0"," ","d","B","m">>

\* "Signal level=45/100", what some drivers print
SigRatio == <<"4","5","/","1","0","0">>

SigWord == <<"n","/","a">>

SigDash == <<"-">>

SigEmpty == <<>>

ParseAddrs == {Mac1, Mac2, ShortAddr, NoLabel, LooseAddr}

ParseSignals == {NoLabel, Sig40, Sig70, SigRatio, SigWord, SigDash, SigEmpty}

\* the IE lines of a chunk with or without a WPA2 line and a WPA line
IeLines(wpa2, wpa) ==
  (IF wpa2 THEN <<IeWpa2>> ELSE <<>>) \o (IF wpa THEN <<IeWpa>> ELSE <<>>) \o <<IeOther>>

\* chunks that differ in their address, in their signal, in their markers
ParseChunks ==
  {Chunk(a, Sig40, FALSE, <<>>) : a \in ParseAddrs}
  \cup {Chunk(Mac1, sg, FALSE, <<>>) : sg \in ParseSignals}
  \cup {Chunk(Mac2, Sig70, e, IeLines(w2, w)) : e \in BOOLEAN, w2 \in BOOLEAN, w \in BOOLEAN}

\* the banner, then at most MaxCells chunks
ParseTexts ==
  {<<Banner>> \o cells : cells \in UNION {[1..n -> ParseChunks] : n \in 0..MaxCells}}

InitParser ==
  /\ ScannerInit({"main"})
  /\ CsvIdle
  /\ DataIdle
  /\ MainIdle
  /\ parse_text \in ParseTexts
  /\ parse_done = FALSE
  /\ parse_networks = <<>>
  /\ parse_warnings = 0
  /\ parse_exc = "none"

\* _parse_scan_results(scan_output), lines 80-104
parse_scan_results ==
  /\ ~parse_done
  /\ parse_done' = TRUE
  /\ parse_networks' = ParseScanResults(parse_text)
  /\ parse_warnings' = ParseWarnings(Cells(parse_text))
  /\ parse_exc' = ParseScanRaises(parse_text)
  /\ UNCHANGED <<parse_text, scannerVars, csvVars, dataVars, mainVars>>

ParserNext == parse_scan_results

ParserSpec == InitParser /\ [][ParserNext]_vars

----------------------------------------------------------------------------
(* The manual loggers (From GPT/wifi.py, ble.py): one measurement stores one *)
(* row of a CSV file whose header grows with the identifiers seen.  A text   *)
(* is a sequence of characters, a file a sequence of lines                   *)

Range(seq) == {seq[i] : i \in 1..Len(seq)}

\* Python values: an int, a str, or None
PyInt(n) == [t |-> "int", v |-> n]

PyStr(text) == [t |-> "str", v |-> text]

PyNone == [t |-> "none", v |-> 0]

\* str() of a natural number
RECURSIVE NatToText(_)
NatToText(n) ==
  IF n < 10 THEN <<DigitChars[n + 1]>>
  ELSE NatToText(n \div 10) \o <<DigitChars[(n % 10) + 1]>>

\* what the csv writer makes of a value: '' for None, str() otherwise
Str(val) ==
  IF val.t = "none" THEN <<>>
  ELSE IF val.t = "str" THEN val.v
  ELSE IF val.v < 0 THEN <<"-">> \o NatToText(-val.v)
  ELSE NatToText(val.v)

\* csv.writer, QUOTE_MINIMAL: a field with a delimiter, a quote or a line
\* end is quoted, and so is an empty field that is alone in its row
NeedsQuote(field, alone) ==
  \/ \E i \in 1..Len(field) : field[i] \in {",", "\"", "\n", "\r"}
  \/ alone /\ field = <<>>

RECURSIVE DoubleQuotes(_)
DoubleQuotes(field) ==
  IF field = <<>> THEN <<>>
  ELSE (IF Head(field) = "\"" THEN <<"\"", "\"">> ELSE <<Head(field)>>)
       \o DoubleQuotes(Tail(field))

\* a writer that never quotes
WriteField_Plain(field, alone) == field

WriteField(field, alone) ==
  IF NeedsQuote(field, alone) THEN <<"\"">> \o DoubleQuotes(field) \o <<"\"">>
  ELSE field

RECURSIVE JoinFields(_)
JoinFields(fields) ==
  IF fields = <<>> THEN <<>>
  ELSE IF Len(fields) = 1 THEN WriteField(fields[1], FALSE)
  ELSE WriteField(Head(fields), FALSE) \o <<",">> \o JoinFields(Tail(fields))

\* writer.writerow(fields): the line without its terminator
WriteLine(fields) ==
  IF Len(fields) = 1 THEN WriteField(fields[1], TRUE) ELSE JoinFields(fields)

\* csv.reader on one line of a file that csv.writer wrote: a character is
\* inside quotes when an odd number of quote characters precede it, and a
\* comma outside quotes ends a field
QuotesBefore(chars, i) == Cardinality({j \in 1..(i - 1) : chars[j] = "\""})

Separators(chars) ==
  {i \in 1..Len(chars) : chars[i] = "," /\ QuotesBefore(chars, i) % 2 = 0}

\* a quoted field without its quotes, "" read as one quote character
RECURSIVE Undouble(_)
Undouble(field) ==
  IF field = <<>> THEN <<>>
  ELSE IF Len(field) >= 2 /\ field[1] = "\"" /\ field[2] = "\""
  THEN <<"\"">> \o Undouble(SubSeq(field, 3, Len(field)))
  ELSE <<Head(field)>> \o Undouble(Tail(field))

ReadField(raw) ==
  IF raw # <<>> /\ Head(raw) = "\"" THEN Undouble(SubSeq(raw, 2, Len(raw) - 1))
  ELSE raw

SplitLine(chars) ==
  LET seps == Separators(chars)
      n == Cardinality(seps)
      Sep(k) == IF k = 0 THEN 0
                ELSE IF k = n + 1 THEN Len(chars) + 1
                ELSE CHOOSE i \in seps : Cardinality({j \in seps : j < i}) = k - 1
  IN  [k \in 1..(n + 1) |-> ReadField(SubSeq(chars, Sep(k - 1) + 1, Sep(k) - 1))]

\* next(reader): the fields of a line; a blank line is an empty row
ReadLine(line) == IF line = <<>> THEN <<>> ELSE SplitLine(line)

\* an OrderedDict is a sequence of [key, val] with distinct keys
DictKeys(d) == [i \in 1..Len(d) |-> d[i].key]

\* rowdict.get(key, ''), the restval of DictWriter
DictGet(d, key) ==
  IF \E i \in 1..Len(d) : d[i].key = key
  THEN d[CHOOSE i \in 1..Len(d) : d[i].key = key].val
  ELSE PyStr(<<>>)

KeyTimestamp == <<"t","i","m","e","s","t","a","m","p">>

KeyX == <<"x">>

KeyY == <<"y">>

\* row_data, wifi.py lines 78-84: the three fixed keys, then the readings
RowData(current_timestamp, x_coord, y_coord, rssi_values) ==
  <<[key |-> KeyTimestamp, val |-> PyInt(current_timestamp)],
    [key |-> KeyX, val |-> PyStr(x_coord)],
    [key |-> KeyY, val |-> PyStr(y_coord)]>>
  \o [i \in 1..Len(rssi_values) |->
        [key |-> rssi_values[i].key, val |-> PyInt(rssi_values[i].val)]]

\* lines 87-98: the file is there, is not empty and its first row was read
FileExists(file) == file.exists /\ file.lines # <<>>

AllHeaders(file) == IF FileExists(file) THEN ReadLine(file.lines[1]) ELSE <<>>

\* line 101
NewHeadersFound(current_headers, all_headers) ==
  \E i \in 1..Len(current_headers) : current_headers[i] \notin Range(all_headers)

\* [h for h in current_headers if h not in all_headers]
RECURSIVE NotIn(_, _)
NotIn(current_headers, all_headers) ==
  IF current_headers = <<>> THEN <<>>
  ELSE (IF Head(current_headers) \in Range(all_headers) THEN <<>>
        ELSE <<Head(current_headers)>>)
       \o NotIn(Tail(current_headers), all_headers)

\* the keys of the new row first, then the old columns it lacks
FinalHeaders_RowFirst(all_headers, current_headers) ==
  current_headers \o NotIn(all_headers, current_headers)

\* line 110
FinalHeaders(all_headers, current_headers) ==
  all_headers \o NotIn(current_headers, all_headers)

\* the key None, under which csv.DictReader puts the fields a row has beyond
\* the names of the first row (restkey)
RestKey == <<"None">>

\* one row of csv.DictReader: the fields under the names of the first row, None
\* for a name the row is too short for, the fields beyond the names under
\* restkey (the model keeps no value for that key: no writer accepts it)
ReadDict(fieldnames, fields) ==
  [i \in 1..Len(fieldnames) |->
     [key |-> fieldnames[i],
      val |-> IF i <= Len(fields) THEN PyStr(fields[i]) ELSE PyNone]]
  \o (IF Len(fields) > Len(fieldnames)
      THEN <<[key |-> RestKey, val |-> PyNone]>> ELSE <<>>)

\* list(csv.DictReader(f)), lines 105-107: the rows after the first, blank
\* lines skipped
RECURSIVE ReadDicts(_, _)
ReadDicts(fieldnames, lines) ==
  IF lines = <<>> THEN <<>>
  ELSE (IF Head(lines) = <<>> THEN <<>>
        ELSE <<ReadDict(fieldnames, ReadLine(Head(lines)))>>)
       \o ReadDicts(fieldnames, Tail(lines))

OldData(file) == ReadDicts(ReadLine(file.lines[1]), Tail(file.lines))

\* DictWriter.writerow raises ValueError for a key that is no field name
WriterRaises(fieldnames, rowdict) ==
  \E i \in 1..Len(rowdict) : rowdict[i].key \notin Range(fieldnames)

\* DictWriter.writerow(rowdict): the line it writes
WriteDict(fieldnames, rowdict) ==
  WriteLine([j \in 1..Len(fieldnames) |-> Str(DictGet(rowdict, fieldnames[j]))])

\* DictWriter.writeheader()
WriteHeader(fieldnames) == WriteLine(fieldnames)

Mac3 == <<"A","A",":","B","B",":","C","C",":","D","D",":","E","E",":","0","3">>

Reading(id, rssi) == [key |-> id, val |-> rssi]

\* what scan_wifi or scan_ble may return: {} when nothing was found
RssiValues ==
  {<<>>,
   <<Reading(Mac1, -40)>>,
   <<Reading(Mac2, -70), Reading(Mac1, -45)>>,
   <<Reading(Mac3, 60), Reading(Mac2, -71)>>,
   <<Reading(Mac3, 0), Reading(Mac2, -72), Reading(Mac1, -47)>>}

\* what the user may type: "10", or "1,5" with a decimal comma
XCoords == {<<"1","0">>, <<"1",",","5">>}

YCoords == {<<"2","0">>}

\* int(time.time())
Timestamps == {1700000000}

\* the rows DictWriter.writerows writes until one raises
RECURSIVE WriteDicts(_, _)
WriteDicts(fieldnames, rows) ==
  IF rows = <<>> \/ WriterRaises(fieldnames, Head(rows)) THEN <<>>
  ELSE <<WriteDict(fieldnames, Head(rows))>> \o WriteDicts(fieldnames, Tail(rows))

\* one turn of the loop of main from the scan on: wifi.py lines 72-124,
\* ble.py lines 86-135
MeasureOnce(x_coord, y_coord, current_timestamp, rssi_values) ==
  /\ Len(csv_file.lines) <= MaxRows
  /\ IF rssi_values = <<>>
     THEN /\ csv_last' = "skipped"
          /\ UNCHANGED csv_file
     ELSE LET row_data == RowData(current_timestamp, x_coord, y_coord, rssi_values)
              file_exists == FileExists(csv_file)
              all_headers == AllHeaders(csv_file)
              current_headers == DictKeys(row_data)
              new_headers_found == NewHeadersFound(current_headers, all_headers)
          IN  IF new_headers_found /\ file_exists
              THEN LET old_data == OldData(csv_file)
                       final_headers == FinalHeaders(all_headers, current_headers)
                       rows == Append(old_data, row_data)
                   IN  /\ csv_file' =
                            [exists |-> TRUE,
                             lines |-> <<WriteHeader(final_headers)>>
                                       \o WriteDicts(final_headers, rows)]
                       /\ csv_last' =
                            IF \E i \in 1..Len(rows) : WriterRaises(final_headers, rows[i])
                            THEN "ValueError" ELSE "rewritten"
              ELSE LET final_headers == IF file_exists THEN all_headers
                                        ELSE current_headers
                   IN  /\ csv_file' =
                            [exists |-> TRUE,
                             lines |-> csv_file.lines
                                       \o (IF file_exists THEN <<>>
                                           ELSE <<WriteHeader(final_headers)>>)
                                       \o WriteDicts(final_headers, <<row_data>>)]
                       /\ csv_last' =
                            IF WriterRaises(final_headers, row_data) THEN "ValueError"
                            ELSE IF file_exists THEN "appended" ELSE "created"
  /\ UNCHANGED <<scannerVars, parserVars, dataVars, mainVars>>

\* the logger starts with no file, or with an empty one
InitCsv ==
  /\ ScannerInit({"main"})
  /\ ParserIdle
  /\ DataIdle
  /\ MainIdle
  /\ csv_file \in {MissingFile, EmptyFile}
  /\ csv_last = "none"

CsvNext ==
  \E x_coord \in XCoords, y_coord \in YCoords, current_timestamp \in Timestamps,
     rssi_values \in RssiValues :
    MeasureOnce(x_coord, y_coord, current_timestamp, rssi_values)

CsvSpec == InitCsv /\ [][CsvNext]_vars

----------------------------------------------------------------------------
(* The store of the continuous collector (main.py): appendData loads the    *)
(* file into a DataFrame, adds one row and writes the file again.  A frame  *)
(* has column names and rows of values; pandas writes and reads the file as *)
(* CSV text                                                                 *)

PyFloat(n) == [t |-> "float", v |-> n]

NaN == [t |-> "nan", v |-> 0]

\* pd.DataFrame()
EmptyFrame == [columns |-> <<>>, rows |-> <<>>]

\* the text of a float that is a whole number, as pandas reads and writes it
IsFloatText(text) ==
  /\ Len(text) >= 3
  /\ SubSeq(text, Len(text) - 1, Len(text)) = <<".", "0">>
  /\ IntParses(SubSeq(text, 1, Len(text) - 2))

\* the dtype read_csv infers for a column from the texts of its cells
InferDtype(texts) ==
  IF \A i \in 1..Len(texts) : IntParses(texts[i]) THEN "int64"
  ELSE IF \A i \in 1..Len(texts) :
            texts[i] = <<>> \/ IntParses(texts[i]) \/ IsFloatText(texts[i])
  THEN "float64"
  ELSE "object"

\* the value read_csv makes of a cell in a column of that dtype
ReadValue(dtype, text) ==
  IF dtype = "int64" THEN PyInt(IntOf(text))
  ELSE IF text = <<>> THEN NaN
  ELSE IF dtype = "object" THEN PyStr(text)
  ELSE IF IsFloatText(text) THEN PyFloat(IntOf(SubSeq(text, 1, Len(text) - 2)))
  ELSE PyFloat(IntOf(text))

\* pd.read_csv on a file that has a header line: a row that is too short has
\* empty cells at its end
ReadCsv(file) ==
  LET table == [i \in 1..Len(file.lines) |-> ReadLine(file.lines[i])]
      columns == table[1]
      Cell(i, j) == IF j <= Len(table[i + 1]) THEN table[i + 1][j] ELSE <<>>
      n == Len(table) - 1
      Dtype(j) == InferDtype([i \in 1..n |-> Cell(i, j)])
  IN  [columns |-> columns,
       rows |-> [i \in 1..n |->
                   [j \in 1..Len(columns) |-> ReadValue(Dtype(j), Cell(i, j))]]]

\* what to_csv writes for a value
FrameText(val) ==
  IF val.t = "nan" THEN <<>>
  ELSE IF val.t = "float" THEN Str(PyInt(val.v)) \o <<".", "0">>
  ELSE Str(val)

\* df.to_csv(filepath, index=False)
ToCsv(df) ==
  [exists |-> TRUE,
   lines |-> <<WriteLine(df.columns)>>
             \o [i \in 1..Len(df.rows) |->
                   WriteLine([j \in 1..Len(df.columns) |-> FrameText(df.rows[i][j])])]]

\* pd.DataFrame([data]): one row, the keys of the dict as columns
FrameOf(data) ==
  [columns |-> DictKeys(data), rows |-> <<[j \in 1..Len(data) |-> data[j].val]>>]

\* the values of column name of df, NaN where df has no such column
ColumnOf(df, name) ==
  [i \in 1..Len(df.rows) |->
     IF name \in Range(df.columns)
     THEN df.rows[i][CHOOSE j \in 1..Len(df.columns) : df.columns[j] = name]
     ELSE NaN]

\* a numeric column that has a NaN or a float is a float64 column
Promote(values) ==
  IF /\ \A i \in 1..Len(values) : values[i].t \in {"int", "float", "nan"}
     /\ \E i \in 1..Len(values) : values[i].t \in {"float", "nan"}
  THEN [i \in 1..Len(values) |->
          IF values[i].t = "int" THEN PyFloat(values[i].v) ELSE values[i]]
  ELSE values

\* pd.concat([df, new_row], ignore_index=True): the columns of df, then those
\* only new_row has; an empty frame adds nothing
Concat(df, new_row) ==
  IF df.columns = <<>> THEN new_row
  ELSE LET columns == df.columns \o NotIn(new_row.columns, df.columns)
           Column(j) == Promote(ColumnOf(df, columns[j]) \o ColumnOf(new_row, columns[j]))
       IN  [columns |-> columns,
            rows |-> [i \in 1..(Len(df.rows) + 1) |->
                        [j \in 1..Len(columns) |-> Column(j)[i]]]]

\* pd.read_csv raises: the file is missing, the read fails for another reason
\* (fault), or the file has no header line
ReadCsvRaises(file, fault) ==
  IF ~file.exists THEN "FileNotFoundError"
  ELSE IF fault # "none" THEN fault
  ELSE IF file.lines = <<>> THEN "EmptyDataError"
  ELSE "none"

\* both handlers of loadData return an empty frame
LoadData(file, fault) ==
  IF ReadCsvRaises(file, fault) = "none" THEN ReadCsv(file) ELSE EmptyFrame

\* the file saveData leaves: the open fails and the file is as it was, or the
\* write fails after the open has truncated the file
SaveData(file, df, fault) ==
  IF fault = "none" THEN ToCsv(df)
  ELSE IF fault = "PermissionError" THEN file
  ELSE EmptyFile

\* pd.Timestamp.now().isoformat()
Stamps ==
  {<<"2","0","2","5","-","0","3","-","0","1","T","1","0",":","0","0",":","0","0">>,
   <<"2","0","2","5","-","0","3","-","0","1","T","1","0",":","0","0",":","0","5">>}

\* add_metadata on what read_wifi returns, as a dict of Python values
StoredData(readings, stamp) ==
  [i \in 1..Len(readings) |-> [key |-> readings[i].key, val |-> PyInt(readings[i].val)]]
  \o <<[key |-> KeyTimestamp, val |-> PyStr(stamp)],
       [key |-> KeyX, val |-> PyInt(CoordX)],
       [key |-> KeyY, val |-> PyInt(CoordY)]>>

\* what collect_reading hands to appendData
DataInputs == {StoredData(r, stamp) : r \in RssiValues, stamp \in Stamps}

\* None in the place of a dict
NoData == <<[key |-> <<>>, val |-> PyNone]>>

\* how the read of an existing file may fail
ReadFaults == {"none", "PermissionError"}

\* how the write may fail
WriteFaults == {"none", "PermissionError", "OSError"}

appendData(data, read_fault, write_fault) ==
  /\ Len(data_file.lines) <= MaxAppends
  /\ IF data = NoData
     THEN /\ data_ret' = "False"
          /\ data_file' = data_file
     ELSE LET df == Concat(LoadData(data_file, read_fault), FrameOf(data))
          IN  /\ data_file' = SaveData(data_file, df, write_fault)
              /\ data_ret' = IF write_fault = "none" THEN "True" ELSE "False"
  /\ UNCHANGED <<scannerVars, parserVars, csvVars, mainVars>>

InitData ==
  /\ ScannerInit({"main"})
  /\ ParserIdle
  /\ CsvIdle
  /\ MainIdle
  /\ DataIdle

DataNext ==
  \E data \in DataInputs \cup {NoData}, read_fault \in ReadFaults,
     write_fault \in WriteFaults :
    appendData(data, read_fault, write_fault)

DataSpec == InitData /\ [][DataNext]_vars

----------------------------------------------------------------------------
(* main() of main.py.  start_continuous_scan, read_light and read_wifi do   *)
(* not suspend, so main() runs from one asyncio.sleep to the next, or to    *)
(* the await of stop_continuous_scan, in one step.                          *)

\* what read_wifi returns, as readings
WifiReadings(cache) ==
  [i \in 1..Len(ReadWifi(cache)) |->
     Reading(ReadWifi(cache)[i].key, ReadWifi(cache)[i].value)]

\* lines 152-156: the scanner is started and main() sleeps
MainStart ==
  /\ mpc = "entry"
  /\ StartCall("main")
  /\ mpc' = "sleeping"
  /\ UNCHANGED <<mexit, collection_count>>

\* what collect_reading raises in the loop body
CollectOutcomes == {"none", "Exception"}

\* lines 158-171, one round of the loop: collect_reading stores the Wi-Fi
\* reading with appendData; an Exception is logged; main() sleeps again
MainCollect(outcome, stamp, read_fault, write_fault) ==
  /\ mpc = "sleeping"
  /\ collection_count < MaxReadings
  /\ collection_count' = collection_count + 1
  /\ IF outcome = "none"
     THEN LET data == StoredData(WifiReadings(wifi_data), stamp)
              df == Concat(LoadData(data_file, read_fault), FrameOf(data))
          IN  /\ ReadWifiCall("main")
              /\ data_file' = SaveData(data_file, df, write_fault)
              /\ data_ret' = IF write_fault = "none" THEN "True" ELSE "False"
     ELSE UNCHANGED <<scannerVars, parserVars, csvVars, dataVars>>
  /\ UNCHANGED <<mpc, mexit>>

\* how main() leaves the try block: KeyboardInterrupt raised in the loop body
\* (break, line 168), or an exception that no handler of the loop catches,
\* thrown in at a sleep (CancelledError) or raised before the scanner starts
ExitKinds == {"break", "CancelledError", "KeyboardInterrupt"}

ExitPossible(kind) ==
  IF kind = "KeyboardInterrupt" THEN mpc = "entry" ELSE mpc = "sleeping"

\* an exit that runs the finally block only after break
ExitRunsFinally_BreakOnly(kind) == kind = "break"

\* the finally block of line 173 runs however the try block is left
ExitRunsFinally(kind) == TRUE

\* lines 166-168 and 173-178: main() leaves the loop and calls
\* stop_continuous_scan, which returns or suspends in its await
MainExit(kind) ==
  /\ ExitPossible(kind)
  /\ mexit' = kind
  /\ collection_count' =
       IF kind = "break" /\ collection_count < MaxReadings
       THEN collection_count + 1 ELSE collection_count
  /\ IF ExitRunsFinally(kind)
     THEN /\ StopCall("main")
          /\ mpc' = IF cpc'["main"] = "stop_await" THEN "stopping" ELSE "returned"
     ELSE /\ mpc' = "returned"
          /\ UNCHANGED <<scannerVars, parserVars, csvVars, dataVars>>

\* lines 178-179: stop_continuous_scan resumes and main() returns
MainStopReturn ==
  /\ mpc = "stopping"
  /\ StopResume("main")
  /\ mpc' = "returned"
  /\ UNCHANGED <<mexit, collection_count>>

InitMain ==
  /\ ScannerInit({"main"})
  /\ ParserIdle
  /\ CsvIdle
  /\ DataIdle
  /\ mpc = "entry"
  /\ mexit = "none"
  /\ collection_count = 0

MainStep ==
  \/ MainStart
  \/ \E outcome \in CollectOutcomes, stamp \in Stamps, read_fault \in ReadFaults,
        write_fault \in WriteFaults :
       MainCollect(outcome, stamp, read_fault, write_fault)
  \/ \E kind \in ExitKinds : MainExit(kind)
  \/ MainStopReturn

MainNext ==
  \/ MainStep
  \/ \E t \in Tasks : TaskStep(t)

\* main() and the scan-loop task on one event loop
MainSpec == InitMain /\ [][MainNext]_vars

----------------------------------------------------------------------------
(* Claims *)

LiveTasks == {t \in Tasks : Live(t)}

Records(d) == {d[i] : i \in 1..Len(d)}

\* C1: with start and stop called from one control flow, at most one loop task
\* is live at any time, and a start call that finds the scanner running creates
\* no task and leaves the running flag, the task handle and the cache as they were.
C1_OneLoopTask ==
  /\ [](Cardinality(LiveTasks) <= 1)
  /\ [][\A c \in Callers : (running /\ start_continuous_scan(c)) =>
          UNCHANGED <<running, scan_task, wifi_data, tpc>>]_vars

\* a start call found the scanner running, its loop task live
C1_Witness ==
  /\ lastOp.op = "start"
  /\ lastOp.exc = "noop"
  /\ scan_task = 2
  /\ LiveTasks = {2}

\* C2 as stated: whenever the running flag is false because of a stop call, the
\* loop task that call cancels has already terminated.
C2_IdleOnlyAfterLoopEnded ==
  \A c \in Callers : (cpc[c] = "stop_await" /\ ~running) => Terminated(cwait[c])

\* C2, amended: a stop call that found the scanner running returns only after
\* the loop task it cancelled has terminated.
C2_StopReturnsAfterLoopEnded ==
  (lastOp.op = "stop" /\ lastOp.exc # "noop") =>
     /\ lastOp.arg \in Tasks
     /\ Terminated(lastOp.arg)

\* stop has returned; it had cancelled the loop during a scan
C2_Witness ==
  /\ lastOp.op = "stop"
  /\ lastOp.exc = "none"
  /\ lastOp.arg \in Tasks
  /\ tend[lastOp.arg] = "scanning"
  /\ cpc["main"] = "idle"

\* C3: a stop call that found the scanner running returns, wherever the loop
\* stood: the loop task terminates, stop raises nothing, and the scanner is
\* idle when stop returns.
C3_StopReturns ==
  /\ \A c \in Callers :
       (cpc[c] = "stop_await") ~>
          (/\ cpc[c] = "idle"
           /\ lastOp = Op("stop", c, cwait[c], "none")
           /\ Terminated(cwait[c])
           /\ ~running)
  /\ [](lastOp.op = "stop" => lastOp.exc \in {"none", "noop"})

\* stop has returned after the loop was cancelled in its error back-off sleep,
\* where nothing catches CancelledError
C3_Witness ==
  /\ lastOp.op = "stop"
  /\ lastOp.exc = "none"
  /\ lastOp.arg \in Tasks
  /\ tend[lastOp.arg] = "backoff"
  /\ tpc[lastOp.arg] = "cancelled"
  /\ ~running

\* C4 as stated: a loop task cancelled during a scan does not unwind before
\* that scan has completed.
C4_LoopWaitsForScan ==
  \A t \in Tasks : (Terminated(t) /\ tend[t] = "scanning") => job[t].st # "running"

\* C4, amended: a scan in flight is never interrupted, it ends only when its
\* executor thread has run _scan_wifi_sync to the end; the loop task does not
\* wait for it.
C4_ScanNotInterrupted ==
  [][\A t \in Tasks :
       (job[t].st = "running" /\ job'[t].st # "running") => ScanThreadRun(t)]_vars

\* stop has returned and the scan it found in flight still runs
C4_Witness ==
  /\ lastOp.op = "stop"
  /\ lastOp.arg \in Tasks
  /\ Terminated(lastOp.arg)
  /\ tend[lastOp.arg] = "scanning"
  /\ job[lastOp.arg].st = "running"

\* C5: a stop call that finds the scanner not running returns at once, raises
\* nothing and leaves the running flag, the task handle, the tasks and the
\* cache as they were.
C5_StopWhenIdleIsNoop ==
  [][\A c \in Callers : (~running /\ stop_continuous_scan(c)) =>
       /\ UNCHANGED <<running, scan_task, wifi_data, tpc, tcancel, cpc>>
       /\ lastOp'.exc = "noop"]_vars

\* stop was called again after a completed stop, the cache holding records
C5_Witness ==
  /\ lastOp = Op("stop", "main", 0, "noop")
  /\ scan_task # None
  /\ Terminated(scan_task)
  /\ wifi_data # <<>>

\* C6: the cache starts empty, no identifier ever leaves it, and each
\* identifier maps to its record in the latest merged scan result that had it.
C6_CacheGrowsAndIsLatest ==
  /\ wifi_data = <<>>
  /\ [][Keys(wifi_data) \subseteq Keys(wifi_data')]_vars
  /\ [](/\ Records(wifi_data) = lastMerged
        /\ Cardinality(Keys(wifi_data)) = Len(wifi_data))

\* Mac2 was overwritten by a later scan that did not see Mac1, and Mac1 by one
\* that did not see Mac2
C6_Witness ==
  wifi_data = <<NetworkInfo(Mac2, -70, "WEP"), NetworkInfo(Mac1, -40, "Open")>>

\* C7: only the loop's merge step changes the cache: the two queries, the
\* one-shot scan, start, stop and the reader of main.py leave it as it was; the
\* queries and the one-shot scan also leave the running flag, the task handle
\* and the loop tasks as they were; the keys timestamp, x and y that the reader
\* adds to its row are never keys of the cache.
C7_OnlyTheLoopWritesTheCache ==
  /\ [][\A c \in Callers :
          /\ CallerStep(c) => wifi_data' = wifi_data
          /\ (\/ \E m \in MinSignals : get_networks(c, m)
              \/ \E k \in Counts : get_strongest_networks(c, k)
              \/ ScanOnceCall(c) \/ ScanOnceThreadRun(c) \/ ScanOnceReturn(c))
               => UNCHANGED <<running, scan_task, tpc, tcancel, job>>]_vars
  /\ [](Keys(wifi_data) \cap MetadataKeys = {})

\* the reader has built a row of every cached network plus the metadata while
\* the loop runs
C7_Witness ==
  /\ lastOp.op = "read_wifi"
  /\ Len(wifi_data) = 2
  /\ Len(ret) = Len(wifi_data) + 3
  /\ running

\* C8: every failure of the scan tool comes out of _scan_wifi_sync as an empty
\* result and no exception; the loop step that takes such a result leaves the
\* cache and the running flag as they were and goes to sleep for the interval;
\* and when that sleep ends with the scanner still running the loop calls the
\* scan again (a call that may fail to reach the executor sends it to its
\* back-off sleep, still alive).
C8_FailureIsEmptyResult ==
  /\ [](/\ \A t \in Tasks : (job[t].st = "done" /\ job[t].tool \in ToolFailures)
                               => (job[t].res = <<>> /\ job[t].exc = "none")
        /\ \A c \in Callers : (cjob[c].st = "done" /\ cjob[c].tool \in ToolFailures)
                               => (cjob[c].res = <<>> /\ cjob[c].exc = "none"))
  /\ [][\A t \in Tasks :
          /\ (ScanResume(t) /\ job[t].tool \in ToolFailures)
               => (UNCHANGED <<wifi_data, running>> /\ tpc'[t] = "sleeping")
          /\ (SleepExpire(t) /\ running)
               => \/ tpc'[t] = "scanning" /\ job'[t].st = "running"
                  \/ tpc'[t] = "backoff"]_vars

\* the tool timed out in a cycle of a running loop whose cache holds records
C8_Witness ==
  \E t \in Tasks :
    /\ tpc[t] = "scanning"
    /\ job[t].st = "done"
    /\ job[t].tool = "TimeoutExpired"
    /\ running
    /\ wifi_data # <<>>

\* C9: get_networks(min_signal) returns exactly the cached records at least
\* that strong, and with its default threshold it returns the whole cache.
C9_DefaultAdmitsAll ==
  [][\A c \in Callers : \A m \in MinSignals : get_networks(c, m) =>
       /\ Records(ret') = {r \in Records(wifi_data) : r.signal_strength >= m}
       /\ (m = DefaultMinSignal => ret' = wifi_data)]_vars

Min(a, b) == IF a < b THEN a ELSE b

\* r is the k strongest of cache, strongest first, ties in cache order
TopK(cache, k, r) ==
  /\ Len(r) = Min(k, Len(cache))
  /\ Records(r) \subseteq Records(cache)
  /\ \A i, j \in 1..Len(r) :
       i < j => \/ r[i].signal_strength > r[j].signal_strength
                \/ /\ r[i].signal_strength = r[j].signal_strength
                   /\ IndexOf(cache, r[i].bssid) < IndexOf(cache, r[j].bssid)
  /\ \A x \in Records(cache) \ Records(r) :
       \A i \in 1..Len(r) : r[i].signal_strength >= x.signal_strength

\* C10: get_strongest_networks(k), k >= 0, returns min(k, cache size) records,
\* the strongest first and ties in cache insertion order, each at least as
\* strong as every cached record it leaves out.
C10_StrongestFirst ==
  [][\A c \in Callers : \A k \in Counts :
       get_strongest_networks(c, k) => TopK(wifi_data, k, ret')]_vars

\* one of two equally strong networks was asked for: the one cached first
C10_Witness ==
  /\ lastOp = Op("get_strongest_networks", "main", 1, "none")
  /\ Len(wifi_data) = 2
  /\ wifi_data[1].signal_strength = wifi_data[2].signal_strength
  /\ wifi_data[1].bssid = Mac1
  /\ ret = <<wifi_data[1]>>

\* C14: merging a scan result into the cache a second time changes nothing,
\* for every cache the scanner reaches and every scan result it merges.
C14_MergeIsIdempotent ==
  [][\A t \in Tasks :
       (ScanResume(t) /\ job[t].exc = "none")
         => /\ wifi_data' = Merge(wifi_data, job[t].res)
            /\ Merge(wifi_data', job[t].res) = wifi_data']_vars

\* a scan result with Mac2 and then Mac1 was merged into a cache that had
\* Mac1, which kept its place
C14_Witness ==
  /\ Len(wifi_data) = 2
  /\ wifi_data[1].bssid = Mac1
  /\ wifi_data[2].signal_strength = -101
  /\ wifi_data[1].signal_strength = -70
  /\ \E t \in Tasks : tpc[t] = "sleeping"

\* C18: from the return of a stop call that found the scanner running until
\* the next start, nothing changes the cache, whether or not the scan that
\* was in flight at the stop ends in between.
C18_NoMergeAfterStop ==
  [][(~running /\ scan_task # None /\ \A c \in Callers : cpc[c] # "stop_await")
       => wifi_data' = wifi_data]_vars

\* stop has returned, and the scan it found in flight ended after its task
C18_Witness ==
  /\ lastOp.op = "stop"
  /\ lastOp.exc = "none"
  /\ lastOp.arg \in Tasks
  /\ ~running
  /\ tend[lastOp.arg] = "scanning"
  /\ job[lastOp.arg].st = "dropped"

\* C20: whenever no stop call is suspended in its await (start never
\* suspends), the running flag is true exactly when a loop task exists that
\* has not ended and has not been cancelled; and a loop task ends only after
\* a stop call cancelled it or cleared the flag, whatever its scans gave.
C20_RunningIffLoopTask ==
  /\ []((\A c \in Callers : cpc[c] # "stop_await")
          => (running <=> \E t \in Tasks : Live(t) /\ ~tcancel[t]))
  /\ [][\A t \in Tasks : (Live(t) /\ ~Live(t)') => (tcancel[t] \/ ~running)]_vars

\* the scan could not be handed to the executor: the loop waits to try again
\* and the scanner is still running
C20_Witness ==
  /\ running
  /\ tpc[scan_task] = "backoff"
  /\ ~tcancel[scan_task]
  /\ \A c \in Callers : cpc[c] # "stop_await"

\* the loop tasks that can still merge a scan result into the cache
MergingTasks == {t \in Tasks : Live(t) /\ ~tcancel[t]}

\* the loop tasks started before the stop call that returned last: all that
\* exist when the call returns at once, those up to the awaited one otherwise
StartedBeforeStop ==
  IF lastOp.exc = "noop" THEN {t \in Tasks : tpc[t] # "none"}
  ELSE {t \in Tasks : t <= lastOp.arg}

----------------------------------------------------------------------------
(* Claims about the parser, under ParserSpec *)

ParsedCells == Cells(parse_text)

CellIndexes == 1..Len(ParsedCells)

\* the address fields of the inputs that hold an identifier the parser can take
ParsableAddrs == {Mac1, Mac2, LooseAddr}

Parsable(i) == ParsedCells[i].addr \in ParsableAddrs

ParsableIds == {ParsedCells[i].addr : i \in {j \in CellIndexes : Parsable(j)}}

\* the last cell of the text with identifier k
LastOf(k) ==
  CHOOSE i \in CellIndexes :
    /\ ParsedCells[i].addr = k
    /\ \A j \in CellIndexes : j > i => ParsedCells[j].addr # k

RecordOf(k) == CHOOSE r \in Records(parse_networks) : r.bssid = k

HasLine(chunk, line) == \E i \in 1..Len(chunk.ie) : chunk.ie[i] = line

\* the table of security modes: encryption marker, WPA2 marker, WPA marker
SecurityTable(e, w2, w) ==
  CASE ~e /\ ~w2 /\ ~w -> "Open"
    [] ~e /\ ~w2 /\ w  -> "Open"
    [] ~e /\ w2 /\ ~w  -> "Open"
    [] ~e /\ w2 /\ w   -> "Open"
    [] e /\ w2 /\ ~w   -> "WPA2"
    [] e /\ w2 /\ w    -> "WPA2"
    [] e /\ ~w2 /\ w   -> "WPA"
    [] e /\ ~w2 /\ ~w  -> "WEP"

\* C12: the security mode of a record follows the table, for each of the
\* eight combinations of encryption marker, WPA2 line and WPA line in the
\* cell the record was parsed from.
C12_SecurityTable ==
  parse_done =>
    \A k \in Keys(parse_networks) :
      LET c == ParsedCells[LastOf(k)]
      IN  RecordOf(k).encryption =
            SecurityTable(c.enc_on, HasLine(c, IeWpa2), HasLine(c, IeWpa))

\* a cell with the encryption marker, a WPA2 line and a WPA line was parsed
C12_Witness ==
  /\ parse_done
  /\ \E k \in Keys(parse_networks) :
       LET c == ParsedCells[LastOf(k)]
       IN  /\ c.enc_on /\ HasLine(c, IeWpa2) /\ HasLine(c, IeWpa)
           /\ RecordOf(k).encryption = "WPA2"

\* C13: an identifier that several cells of one text share is in the result
\* once, with the record parsed from the last of those cells.
C13_LastCellWins ==
  parse_done =>
    \A k \in ParsableIds :
      /\ Cardinality({i \in 1..Len(parse_networks) : parse_networks[i].bssid = k}) = 1
      /\ <<RecordOf(k)>> = ParseCell(ParsedCells[LastOf(k)])

\* two cells with one identifier and different fields were parsed
C13_Witness ==
  /\ parse_done
  /\ Len(ParsedCells) = 2
  /\ ParsedCells[1].addr = ParsedCells[2].addr
  /\ ParsedCells[1].addr \in ParsableAddrs
  /\ ParseCell(ParsedCells[1]) # ParseCell(ParsedCells[2])
  /\ Len(parse_networks) = 1

\* what the signal field of each input stands for: the integer right after
\* the label, -100 where there is none
ExpectedSignal(sig) ==
  CASE sig = NoLabel  -> -100
    [] sig = SigEmpty -> -100
    [] sig = SigWord  -> -100
    [] sig = SigDash  -> -100
    [] sig = Sig40    -> -40
    [] sig = Sig70    -> -70
    [] sig = SigRatio -> 45

MacShaped(id) ==
  /\ Len(id) = 17
  /\ \A i \in 1..17 : IF i % 3 = 0 THEN id[i] = ":" ELSE id[i] \in HexChars

\* C17: every record the parser returns has a MAC-shaped identifier, and a
\* cell whose address field is not of that shape gives no record.
C17_IdentifiersAreMacShaped ==
  parse_done =>
    /\ \A r \in Records(parse_networks) : MacShaped(r.bssid)
    /\ \A i \in CellIndexes :
         ~MacShaped(ParsedCells[i].addr) => ParsedCells[i].addr \notin Keys(parse_networks)

----------------------------------------------------------------------------
(* Claims about the manual loggers, under CsvSpec *)

\* the rows of a file as a reader gets them, the header first
Table(file) == [i \in 1..Len(file.lines) |-> ReadLine(file.lines[i])]

Position(seq, x) == CHOOSE i \in 1..Len(seq) : seq[i] = x

\* new is old followed by the keys of row that old lacks, in the order of row
ExtendsHeader(old, new, row) ==
  /\ Len(new) = Len(old) + Cardinality(Range(DictKeys(row)) \ Range(old))
  /\ SubSeq(new, 1, Len(old)) = old
  /\ \A j \in (Len(old) + 1)..Len(new) :
       /\ new[j] \in Range(DictKeys(row)) \ Range(old)
       /\ \A k \in (j + 1)..Len(new) :
            Position(DictKeys(row), new[j]) < Position(DictKeys(row), new[k])

\* after is before with its header extended for row, its rows padded with
\* empty fields, and row as the last line
Reconciled(before, after, row) ==
  LET old == Table(before)
      new == Table(after)
  IN  /\ Len(new) = Len(old) + 1
      /\ ExtendsHeader(old[1], new[1], row)
      /\ \A i \in 2..Len(old) :
           /\ Len(new[i]) = Len(new[1])
           /\ \A j \in 1..Len(new[1]) :
                new[i][j] = IF j <= Len(old[1]) THEN old[i][j] ELSE <<>>
      /\ Len(new[Len(new)]) = Len(new[1])
      /\ \A j \in 1..Len(new[1]) :
           new[Len(new)][j] =
             IF new[1][j] \in Range(DictKeys(row))
             THEN Str(row[Position(DictKeys(row), new[1][j])].val)
             ELSE <<>>

\* C15: a measurement whose row has a key that the header H of the existing
\* file lacks rewrites the file with the header H followed by the new keys in
\* the order of the row; every earlier row keeps its values under the columns
\* of H and has empty fields under the new columns, and the new row is the
\* last line, with empty fields under the columns of H it has no key for.
C15_HeaderReconciliation ==
  [][\A x \in XCoords, y \in YCoords, ts \in Timestamps, rssi \in RssiValues :
       (/\ MeasureOnce(x, y, ts, rssi)
        /\ rssi # <<>>
        /\ FileExists(csv_file)
        /\ ~(Range(DictKeys(RowData(ts, x, y, rssi))) \subseteq Range(Table(csv_file)[1])))
         => Reconciled(csv_file, csv_file', RowData(ts, x, y, rssi))]_vars

\* a file with one row for Mac1, stored at x = "1,5", was rewritten for a row
\* with Mac3 and Mac2
C15_Witness ==
  /\ csv_last = "rewritten"
  /\ Len(csv_file.lines) = 3
  /\ Table(csv_file)[1] = <<KeyTimestamp, KeyX, KeyY, Mac1, Mac3, Mac2>>
  /\ Table(csv_file)[2] =
       <<<<"1","7","0","0","0","0","0","0","0","0">>, <<"1",",","5">>, <<"2","0">>,
         <<"-","4","0">>, <<>>, <<>>>>
  /\ Table(csv_file)[3] =
       <<<<"1","7","0","0","0","0","0","0","0","0">>, <<"1","0">>, <<"2","0">>,
         <<>>, <<"6","0">>, <<"-","7","1">>>>

\* the lines after the header
DataRows(file) == IF file.lines = <<>> THEN 0 ELSE Len(file.lines) - 1

\* the header of before is the beginning of the header of after, and every
\* row of before is in after at its place, with its values under the columns
\* it had
KeepsRows(before, after) ==
  LET old == Table(before)
      new == Table(after)
  IN  \A i \in 1..Len(old) :
        /\ i <= Len(new)
        /\ Len(new[i]) >= Len(old[i])
        /\ SubSeq(new[i], 1, Len(old[i])) = old[i]

\* C22: from a missing or an empty file on, a file that has lines has its
\* header as first line and no second header; an iteration whose scan found
\* nothing leaves the file as it was; every other iteration adds one data row,
\* keeps the old header as the beginning of the new one and keeps the values
\* of every earlier row.
C22_LoggerFileInvariants ==
  /\ [](csv_file.lines # <<>> =>
          /\ SubSeq(Table(csv_file)[1], 1, 3) = <<KeyTimestamp, KeyX, KeyY>>
          /\ \A i \in 2..Len(csv_file.lines) :
               /\ Table(csv_file)[i][1] # KeyTimestamp
               /\ Len(Table(csv_file)[i]) = Len(Table(csv_file)[1]))
  /\ [][\A x \in XCoords, y \in YCoords, ts \in Timestamps, rssi \in RssiValues :
          MeasureOnce(x, y, ts, rssi) =>
            IF rssi = <<>> THEN csv_file' = csv_file
            ELSE /\ DataRows(csv_file') = DataRows(csv_file) + 1
                 /\ KeepsRows(csv_file, csv_file')
                 /\ csv_last' # "ValueError"]_vars

\* two rows are stored, the header was widened for the second, and the last
\* scan found nothing
C22_Witness ==
  /\ csv_last = "skipped"
  /\ DataRows(csv_file) = 2
  /\ Len(Table(csv_file)[1]) = 6
  /\ Table(csv_file)[2][2] = <<"1",",","5">>

----------------------------------------------------------------------------
(* The store of the continuous collector *)

\* the rows a file holds, as pandas reads them
StoredRows(file) == IF file.lines = <<>> THEN <<>> ELSE ReadCsv(file).rows

StoredColumns(file) == IF file.lines = <<>> THEN <<>> ELSE ReadCsv(file).columns

\* the number a value stands for; an int and the float of the same number
\* are the same reading
SameValue(a, b) ==
  IF a.t \in {"int", "float"} /\ b.t \in {"int", "float"} THEN a.v = b.v ELSE a = b

\* the value of row i of the file in the column called name
ValueAt(file, i, name) == ColumnOf(ReadCsv(file), name)[i]

\* the file after holds every row of the file before, and data as its last row
HoldsAllPlus(before, after, data) ==
  LET n == Len(StoredRows(before))
  IN  /\ Len(StoredRows(after)) = n + 1
      /\ \A i \in 1..n : \A name \in Range(StoredColumns(before)) :
           SameValue(ValueAt(after, i, name), ValueAt(before, i, name))
      /\ \A j \in 1..Len(data) :
           SameValue(ValueAt(after, n + 1, data[j].key), data[j].val)

\* C21: whenever appendData returns True, the stored file holds every row
\* that was stored before the call, and the new row after them
C21_AppendKeepsStoredRows ==
  [][\A data \in DataInputs, read_fault \in ReadFaults, write_fault \in WriteFaults :
       (appendData(data, read_fault, write_fault) /\ data_ret' = "True")
         => HoldsAllPlus(data_file, data_file', data)]_vars

\* the same when every read of an existing file succeeds
AppendKeepsRowsWhenReadable ==
  [][\A data \in DataInputs, write_fault \in WriteFaults :
       (appendData(data, "none", write_fault) /\ data_ret' = "True")
         => HoldsAllPlus(data_file, data_file', data)]_vars

----------------------------------------------------------------------------
(* Claims about main(), under MainSpec *)

\* C23: in main() a reading is collected only while the scanner started by
\* main() is running; every exit from the collection loop calls
\* stop_continuous_scan; and once main() has returned no scan-loop task is
\* live
C23_MainStartsAndStopsScanner ==
  /\ [](mpc = "returned" => \A t \in Tasks : ~Live(t))
  /\ [][/\ collection_count' # collection_count
          => /\ running
             /\ scan_task \in Tasks
             /\ tpc[scan_task] # "none"
        /\ mexit' # mexit
          => /\ lastOp'.op \in {"stop", "stop_called"}
             /\ lastOp'.by = "main"]_vars

\* main() has collected a reading, was cancelled in its sleep, has awaited the
\* scan-loop task in stop_continuous_scan and has returned
C23_Witness ==
  /\ mpc = "returned"
  /\ mexit = "CancelledError"
  /\ collection_count >= 1
  /\ data_file.lines # <<>>
  /\ lastOp.op = "stop"
  /\ lastOp.arg \in Tasks
  /\ Terminated(lastOp.arg)
  /\ wifi_data # <<>>

====
